---- MODULE Spec2Model ----
(***************************************************************************)
(* Model of the detection core of yolov4-tf2: the IoU family, the decode   *)
(* transform, the per-scale loss layer, the total loss and the inference   *)
(* non-max-suppression step (src/model/loss.py, src/model/utils.py).       *)
(*                                                                         *)
(* Numbers.  A float32 tensor element is modelled as a fixed-point integer *)
(* counting units of 1/SCALE (1.0 is SCALE), with products and quotients   *)
(* rounded down, plus the three non-finite values of IEEE arithmetic.      *)
(* Boxes are 4-tuples <<x1, y1, x2, y2>>.                                   *)
(***************************************************************************)
EXTENDS Integers, Sequences, FiniteSets, TLC

VARIABLES pc, self, args, ret, hist

vars == <<pc, self, args, ret, hist>>

(***************************************************************************)
(* Bounds of the model.                                                    *)
(***************************************************************************)
SCALE == 1024
MaxCoord == 3
MaxBatch == 2
GridSize == 1
NumClass == 2

(***************************************************************************)
(* float32 arithmetic.                                                     *)
(***************************************************************************)
PosInf == 2^30
NegInf == -(2^30)
NaN == 2^30 + 1

IsFinite(a) == a > NegInf /\ a < PosInf

Fx(n, d) == (n * SCALE) \div d

FNeg(a) ==
    IF a = NaN THEN NaN
    ELSE IF a = PosInf THEN NegInf
    ELSE IF a = NegInf THEN PosInf
    ELSE -a

FAdd(a, b) ==
    IF a = NaN \/ b = NaN THEN NaN
    ELSE IF a = PosInf THEN (IF b = NegInf THEN NaN ELSE PosInf)
    ELSE IF a = NegInf THEN (IF b = PosInf THEN NaN ELSE NegInf)
    ELSE IF b = PosInf \/ b = NegInf THEN b
    ELSE a + b

FSub(a, b) == FAdd(a, FNeg(b))

Sign(a) == IF a > 0 THEN 1 ELSE IF a < 0 THEN -1 ELSE 0

FMul(a, b) ==
    IF a = NaN \/ b = NaN THEN NaN
    ELSE IF IsFinite(a) /\ IsFinite(b) THEN (a * b) \div SCALE
    ELSE IF a = 0 \/ b = 0 THEN NaN
    ELSE IF Sign(a) = Sign(b) THEN PosInf ELSE NegInf

\* IEEE division: x/0 is +-Inf, 0/0 and Inf/Inf are NaN.
FDiv(a, b) ==
    IF a = NaN \/ b = NaN THEN NaN
    ELSE IF ~IsFinite(a) THEN
        (IF ~IsFinite(b) THEN NaN
         ELSE IF (b >= 0) = (a = PosInf) THEN PosInf ELSE NegInf)
    ELSE IF ~IsFinite(b) THEN 0
    ELSE IF b = 0 THEN
        (IF a = 0 THEN NaN ELSE IF a > 0 THEN PosInf ELSE NegInf)
    ELSE (a * SCALE) \div b

\* Plain division where the safe division is meant.
divide_plain(a, b) == FDiv(a, b)

\* tf.math.divide_no_nan: 0 where the denominator is 0.
divide_no_nan(a, b) == IF b = 0 THEN 0 ELSE FDiv(a, b)

FMax(a, b) == IF a = NaN \/ b = NaN THEN NaN ELSE IF a >= b THEN a ELSE b
FMin(a, b) == IF a = NaN \/ b = NaN THEN NaN ELSE IF a <= b THEN a ELSE b

\* Comparisons with NaN are false.
FLt(a, b) == a # NaN /\ b # NaN /\ a < b
FLe(a, b) == a # NaN /\ b # NaN /\ a <= b

FSquare(a) == FMul(a, a)

\* The sequence f as a tuple of evaluated elements.
Tup(f) == f \o <<>>

Pi == (355 * SCALE) \div 113

\* tf.atan on [0, 1]: (pi/4) x + 0.273 x (1 - x).
AtanUnit(x) == FMul(Pi \div 4, x) + FMul(FMul(Fx(273, 1000), x), SCALE - x)

\* tf.atan, in radians.
Atan(x) ==
    IF x = NaN THEN NaN
    ELSE IF x = PosInf THEN Pi \div 2
    ELSE IF x = NegInf THEN -(Pi \div 2)
    ELSE IF x < 0 THEN
        (IF -x <= SCALE THEN -AtanUnit(-x)
         ELSE -((Pi \div 2) - AtanUnit(FDiv(SCALE, -x))))
    ELSE IF x <= SCALE THEN AtanUnit(x)
    ELSE (Pi \div 2) - AtanUnit(FDiv(SCALE, x))

(***************************************************************************)
(* The IoU family of YOLOv4Loss.                                           *)
(***************************************************************************)
\* The intersection width without its clamp at 0.
IntW_unclamped(box_1, box_2) ==
    FSub(FMin(box_1[3], box_2[3]), FMax(box_1[1], box_2[1]))

IntW(box_1, box_2) ==
    FMax(FSub(FMin(box_1[3], box_2[3]), FMax(box_1[1], box_2[1])), 0)

IntH(box_1, box_2) ==
    FMax(FSub(FMin(box_1[4], box_2[4]), FMax(box_1[2], box_2[2])), 0)

BoxArea(box) == FMul(FSub(box[3], box[1]), FSub(box[4], box[2]))

iou(box_1, box_2) ==
    LET int_area == FMul(IntW(box_1, box_2), IntH(box_1, box_2))
        box_1_area == BoxArea(box_1)
        box_2_area == BoxArea(box_2)
    IN  divide_no_nan(int_area, FSub(FAdd(box_1_area, box_2_area), int_area))

\* box_1 is a list of boxes, box_2 a list of N boxes: the result pairs every
\* box of box_1 with every box of box_2.
broadcast_iou(box_1, box_2) ==
    Tup([i \in DOMAIN box_1 |->
        Tup([j \in DOMAIN box_2 |->
            LET int_area == FMul(IntW(box_1[i], box_2[j]), IntH(box_1[i], box_2[j]))
                box_1_area == BoxArea(box_1[i])
                box_2_area == BoxArea(box_2[j])
            IN  divide_no_nan(int_area,
                              FSub(FAdd(box_1_area, box_2_area), int_area))])])

\* giou with the enclosing box taken as the intersection box.
giou_inner_box(box_1, box_2) ==
    LET int_area == FMul(IntW(box_1, box_2), IntH(box_1, box_2))
        union_area == FSub(FAdd(BoxArea(box_1), BoxArea(box_2)), int_area)
        iou_ == divide_no_nan(int_area, union_area)
        enclose_w == FMax(FSub(FMin(box_1[3], box_2[3]), FMax(box_1[1], box_2[1])), 0)
        enclose_h == FMax(FSub(FMin(box_1[4], box_2[4]), FMax(box_1[2], box_2[2])), 0)
        enclose_area == FMul(enclose_w, enclose_h)
    IN  FSub(iou_, divide_no_nan(FSub(enclose_area, union_area), enclose_area))

giou(box_1, box_2) ==
    LET int_area == FMul(IntW(box_1, box_2), IntH(box_1, box_2))
        union_area == FSub(FAdd(BoxArea(box_1), BoxArea(box_2)), int_area)
        iou_ == divide_no_nan(int_area, union_area)
        enclose_w == FMax(FSub(FMax(box_1[3], box_2[3]), FMin(box_1[1], box_2[1])), 0)
        enclose_h == FMax(FSub(FMax(box_1[4], box_2[4]), FMin(box_1[2], box_2[2])), 0)
        enclose_area == FMul(enclose_w, enclose_h)
    IN  FSub(iou_, divide_no_nan(FSub(enclose_area, union_area), enclose_area))

\* alpha with the sign of its denominator's IoU term reversed.
ciou_alpha_wrong_sign(v, iou_) == divide_no_nan(v, FAdd(FSub(iou_, SCALE), v))

\* alpha = v / (1 - iou + v).
ciou_alpha(v, iou_) == divide_no_nan(v, FAdd(FSub(SCALE, iou_), v))

\* The values ciou computes on its way: iou, diou, v, alpha and the result.
ciou_terms(box_1, box_2) ==
    LET box_1_w == FSub(box_1[3], box_1[1])
        box_1_h == FSub(box_1[4], box_1[2])
        box_2_w == FSub(box_2[3], box_2[1])
        box_2_h == FSub(box_2[4], box_2[2])
        box_1_area == FMul(box_1_w, box_1_h)
        box_2_area == FMul(box_2_w, box_2_h)
        inter_w == FMax(FSub(FMin(box_1[3], box_2[3]), FMax(box_1[1], box_2[1])), 0)
        inter_h == FMax(FSub(FMin(box_1[4], box_2[4]), FMax(box_1[2], box_2[2])), 0)
        inter_area == FMul(inter_w, inter_h)
        union_area == FSub(FAdd(box_1_area, box_2_area), inter_area)
        iou_ == divide_no_nan(inter_area, union_area)
        enclose_w == FSub(FMax(box_1[3], box_2[3]), FMin(box_1[1], box_2[1]))
        enclose_h == FSub(FMax(box_1[4], box_2[4]), FMin(box_1[2], box_2[2]))
        enclose_c2 == FAdd(FSquare(enclose_w), FSquare(enclose_h))
        box_1_center_x == FDiv(FAdd(box_1[1], box_1[3]), 2 * SCALE)
        box_1_center_y == FDiv(FAdd(box_1[2], box_1[4]), 2 * SCALE)
        box_2_center_x == FDiv(FAdd(box_2[1], box_2[3]), 2 * SCALE)
        box_2_center_y == FDiv(FAdd(box_2[2], box_2[4]), 2 * SCALE)
        p2 == FAdd(FSquare(FSub(box_1_center_x, box_2_center_x)),
                   FSquare(FSub(box_1_center_y, box_2_center_y)))
        diou == FSub(iou_, divide_no_nan(p2, enclose_c2))
        atan == FSub(Atan(divide_no_nan(box_1_w, box_1_h)),
                     Atan(divide_no_nan(box_2_w, box_2_h)))
        v == FSquare(FDiv(FMul(atan, 2 * SCALE), Pi))
        alpha == ciou_alpha(v, iou_)
    IN  [iou |-> iou_, diou |-> diou, v |-> v, alpha |-> alpha,
         ciou |-> FSub(diou, FMul(alpha, v))]

ciou(box_1, box_2) == ciou_terms(box_1, box_2).ciou

(***************************************************************************)
(* exp, log, sigmoid and pow.  exp and log are exact at the powers of two  *)
(* and interpolate linearly between them.                                  *)
(***************************************************************************)
Ln2 == Fx(693147, 1000000)

\* 2^k as a float, 0 on underflow and +Inf on overflow.
Pow2(k) ==
    IF k >= 20 THEN PosInf
    ELSE IF k >= 0 THEN (2^k) * SCALE
    ELSE IF k < -20 THEN 0
    ELSE SCALE \div (2^(-k))

RECURSIVE FloorLog2(_, _)
FloorLog2(x, k) ==
    IF Pow2(k) <= x /\ x < Pow2(k + 1) THEN k
    ELSE IF x < Pow2(k) THEN FloorLog2(x, k - 1)
    ELSE FloorLog2(x, k + 1)

\* tf.exp
Exp(t) ==
    IF t = NaN THEN NaN
    ELSE IF t = PosInf THEN PosInf
    ELSE IF t = NegInf THEN 0
    ELSE LET k == t \div Ln2
             r == t - k * Ln2
             base == Pow2(k)
         IN  IF base = PosInf THEN PosInf ELSE base + (base * r) \div Ln2

\* tf.math.log: -Inf at 0, NaN below 0.
Log(x) ==
    IF x = NaN \/ x < 0 THEN NaN
    ELSE IF x = 0 THEN NegInf
    ELSE IF x = PosInf THEN PosInf
    ELSE LET k == FloorLog2(x, 0)
         IN  k * Ln2 + ((x - Pow2(k)) * Ln2) \div Pow2(k)

\* tf.sigmoid
Sigmoid(t) == FDiv(SCALE, FAdd(SCALE, Exp(FNeg(t))))

\* tf.pow with a whole exponent.
RECURSIVE FPow(_, _)
FPow(x, n) == IF n = 0 THEN SCALE ELSE FMul(x, FPow(x, n - 1))

RECURSIVE ReduceSum(_)
ReduceSum(s) == IF s = <<>> THEN 0 ELSE FAdd(Head(s), ReduceSum(Tail(s)))

\* tf.reduce_max over a list: -Inf for the empty list.
RECURSIVE ReduceMax(_)
ReduceMax(s) == IF s = <<>> THEN NegInf ELSE FMax(Head(s), ReduceMax(Tail(s)))

ReduceMean(s) == FDiv(ReduceSum(s), Len(s) * SCALE)

(***************************************************************************)
(* Tensors.  A tensor of shape (batch, grid, grid, anchors, ...) is a       *)
(* sequence indexed [b][row][col][a]; its elements are records.            *)
(***************************************************************************)
Map4(t, F(_, _, _, _)) ==
    Tup([b \in DOMAIN t |->
        Tup([i \in DOMAIN t[b] |->
            Tup([j \in DOMAIN t[b][i] |->
                Tup([a \in DOMAIN t[b][i][j] |-> F(b, i, j, a)])])])])

\* One image's (grid, grid, anchors) entries in row-major order.
Flatten(img) ==
    LET G == Len(img)
        A == Len(img[1][1])
    IN  Tup([k \in 1..(G * G * A) |->
            img[((k - 1) \div (G * A)) + 1][(((k - 1) \div A) % G) + 1][((k - 1) % A) + 1]])

\* The mean over the cells where the sum is meant.
ReduceMean123(t) == Tup([b \in DOMAIN t |-> ReduceMean(Flatten(t[b]))])

\* tf.reduce_sum(t, axis=(1, 2, 3)): one sum per image.
ReduceSum123(t) == Tup([b \in DOMAIN t |-> ReduceSum(Flatten(t[b]))])

\* tf.boolean_mask: the entries whose mask is set, in order.
RECURSIVE BooleanMask(_, _)
BooleanMask(s, mask) ==
    IF s = <<>> THEN <<>>
    ELSE (IF Head(mask) # 0 THEN <<Head(s)>> ELSE <<>>)
            \o BooleanMask(Tail(s), Tail(mask))

(***************************************************************************)
(* Configuration (config.cfg).                                             *)
(***************************************************************************)
grid_sensitivity_ratio == Fx(11, 10)

\* cfg.anchors.get_anchors(): 9 (width, height) pairs, normalized.
get_anchors ==
    << <<Fx(1, 16), Fx(1, 16)>>, <<Fx(1, 16), Fx(1, 8)>>, <<Fx(1, 8), Fx(1, 16)>>,
       <<Fx(1, 8), Fx(1, 4)>>,   <<Fx(1, 4), Fx(1, 8)>>,  <<Fx(1, 4), Fx(1, 4)>>,
       <<Fx(1, 4), Fx(1, 2)>>,   <<Fx(1, 2), Fx(1, 4)>>,  <<Fx(1, 2), Fx(1, 2)>> >>

\* cfg.anchors.get_anchor_masks(): one mask of 3 anchors per scale.
get_anchor_masks == << <<7, 8, 9>>, <<4, 5, 6>>, <<1, 2, 3>> >>

\* self.anchors[self.anchor_masks[k]]
ScaleAnchors(k) == Tup([a \in 1..3 |-> get_anchors[get_anchor_masks[k][a]]])

\* The grid offset with row and column exchanged.
GridOffset_row_col(i, j) == <<(i - 1) * SCALE, (j - 1) * SCALE>>

(***************************************************************************)
(* YOLOv4Loss.decode_loss                                                  *)
(***************************************************************************)
\* meshgrid + stack: the grid offset of the cell in row i, column j is
\* (col, row), counted from 0.
GridOffset(i, j) == <<(j - 1) * SCALE, (i - 1) * SCALE>>

\* loss_layer builds its own grid for the legacy encoding, with the same
\* meshgrid calls.
GridOffsetLoss(i, j) == <<(j - 1) * SCALE, (i - 1) * SCALE>>

\* The box equations: (raw_xy + grid) / grid_size, exp(raw_wh) * anchor, and
\* centre and size to corners.
BoxEquations(raw_box, grid, grid_size, anchor) ==
    LET box_x == FDiv(FAdd(raw_box[1], grid[1]), grid_size * SCALE)
        box_y == FDiv(FAdd(raw_box[2], grid[2]), grid_size * SCALE)
        box_w == FMul(Exp(raw_box[3]), anchor[1])
        box_h == FMul(Exp(raw_box[4]), anchor[2])
    IN  <<FSub(box_x, FDiv(box_w, 2 * SCALE)), FSub(box_y, FDiv(box_h, 2 * SCALE)),
          FAdd(box_x, FDiv(box_w, 2 * SCALE)), FAdd(box_y, FDiv(box_h, 2 * SCALE))>>

\* pred[b][i][j][a] = [x, y, w, h, obj, cls]: the raw outputs of a cell.
decode_loss(pred, anchors) ==
    LET grid_size == Len(pred[1])
        Cell(b, i, j, a) ==
            LET p == pred[b][i][j][a]
                raw_box == <<FMul(grid_sensitivity_ratio, Sigmoid(p.x)),
                             FMul(grid_sensitivity_ratio, Sigmoid(p.y)), p.w, p.h>>
            IN  [bbox |-> BoxEquations(raw_box, GridOffset(i, j), grid_size, anchors[a]),
                 objectness |-> Sigmoid(p.obj),
                 class_probs |-> Tup([c \in DOMAIN p.cls |-> Sigmoid(p.cls[c])]),
                 raw_box |-> raw_box]
    IN  Map4(pred, Cell)

(***************************************************************************)
(* Losses.                                                                 *)
(***************************************************************************)
\* keras.backend.epsilon(), the smallest step of the model's floats.
Epsilon == Fx(1, SCALE)

smooth_labels(y_true, smoothing_factor, num_class) ==
    FAdd(FMul(y_true, FSub(SCALE, smoothing_factor)),
         FDiv(smoothing_factor, num_class * SCALE))

\* keras binary_crossentropy for one class: the prediction is clipped to
\* [eps, 1 - eps].
BceTerm(y, p) ==
    LET q == FMax(Epsilon, FMin(p, SCALE - Epsilon))
    IN  FNeg(FAdd(FMul(y, Log(FAdd(q, Epsilon))),
                  FMul(FSub(SCALE, y), Log(FAdd(FSub(SCALE, q), Epsilon)))))

\* keras binary_crossentropy: the mean over the last axis.
binary_crossentropy(y_true, y_pred) ==
    ReduceMean(Tup([c \in DOMAIN y_true |-> BceTerm(y_true[c], y_pred[c])]))

\* The probability given to the true label, and the two weights of one class.
p_t(y, p) == FAdd(FMul(y, p), FMul(FSub(SCALE, y), FSub(SCALE, p)))

modulating_factor(y, p, gamma) == FPow(FSub(SCALE, p_t(y, p)), gamma)

alpha_weight_factor(y, alpha) == FAdd(FMul(y, alpha), FMul(FSub(SCALE, y), FSub(SCALE, alpha)))

\* y_true, y_pred: the last axis of one cell.  sigmoid_loss is the keras
\* binary cross-entropy, one number for the whole axis, broadcast over it.
focal_loss(y_true, y_pred, gamma, alpha) ==
    LET sigmoid_loss == binary_crossentropy(y_true, y_pred)
    IN  ReduceSum(Tup([c \in DOMAIN y_true |->
            FMul(FMul(modulating_factor(y_true[c], y_pred[c], gamma),
                      alpha_weight_factor(y_true[c], alpha)),
                 sigmoid_loss)]))

DefaultGamma == 2
DefaultAlpha == Fx(25, 100)

\* Every image's target boxes where objectness is set, whatever the image.
IgnoreTruth_whole_batch(true_box_coor, obj_mask, b) ==
    LET RECURSIVE All(_)
        All(n) == IF n = 0 THEN <<>>
                  ELSE All(n - 1) \o BooleanMask(Flatten(true_box_coor[n]),
                                                 Flatten(obj_mask[n]))
    IN  All(Len(true_box_coor))

(***************************************************************************)
(* YOLOv4Loss.loss_layer                                                   *)
(***************************************************************************)
\* The ground-truth boxes an image's predictions are compared with: the
\* image's own target boxes where its objectness is set.
IgnoreTruth(true_box_coor, obj_mask, b) ==
    BooleanMask(Flatten(true_box_coor[b]), Flatten(obj_mask[b]))

\* The legacy encoding without the replacement of infinite values.
InvertBoxEquations_unclamped(true_xy, true_wh, grid, grid_size, anchor) ==
    <<FSub(FMul(true_xy[1], grid_size * SCALE), grid[1]),
      FSub(FMul(true_xy[2], grid_size * SCALE), grid[2]),
      Log(FDiv(true_wh[1], anchor[1])),
      Log(FDiv(true_wh[2], anchor[2]))>>

\* The legacy encoding of a target: the cell-relative offset
\* true_xy * grid_size - grid and log(true_wh / anchor), with infinite
\* values replaced by 0.
InvertBoxEquations(true_xy, true_wh, grid, grid_size, anchor) ==
    LET log_w == Log(FDiv(true_wh[1], anchor[1]))
        log_h == Log(FDiv(true_wh[2], anchor[2]))
    IN  <<FSub(FMul(true_xy[1], grid_size * SCALE), grid[1]),
          FSub(FMul(true_xy[2], grid_size * SCALE), grid[2]),
          IF log_w = PosInf \/ log_w = NegInf THEN 0 ELSE log_w,
          IF log_h = PosInf \/ log_h = NegInf THEN 0 ELSE log_h>>

\* The class-loss term of one cell.
ClassLoss(this, obj_mask, true_class, pred_class) ==
    IF this.use_focal_loss THEN focal_loss(true_class, pred_class, DefaultGamma, DefaultAlpha)
    ELSE FMul(obj_mask, binary_crossentropy(true_class, pred_class))

\* The confidence-loss term of one cell.
ConfidenceLoss(this, obj_mask, ignore_mask, true_obj, pred_obj) ==
    IF this.use_focal_obj_loss
    THEN focal_loss(<<true_obj>>, <<pred_obj>>, DefaultGamma, DefaultAlpha)
    ELSE LET bce == binary_crossentropy(<<true_obj>>, <<pred_obj>>)
         IN  FAdd(FMul(obj_mask, bce),
                  FMul(FMul(FSub(SCALE, obj_mask), ignore_mask), bce))

\* The legacy xy_loss and wh_loss of one cell: the squared error of the
\* encoded target true_enc against the raw prediction.
xy_loss(obj_mask, box_loss_scale, pred_raw_box, true_enc) ==
    FMul(FMul(obj_mask, box_loss_scale),
         FAdd(FSquare(FSub(true_enc[1], pred_raw_box[1])),
              FSquare(FSub(true_enc[2], pred_raw_box[2]))))

wh_loss(obj_mask, box_loss_scale, pred_raw_box, true_enc) ==
    FMul(FMul(obj_mask, box_loss_scale),
         FAdd(FSquare(FSub(true_enc[3], pred_raw_box[3])),
              FSquare(FSub(true_enc[4], pred_raw_box[4]))))

\* The box-loss term of one cell: GIoU, else CIoU, else the legacy squared
\* error of the encoded target against the raw prediction.
BoxLoss(this, obj_mask, box_loss_scale, pred_box_coor, true_box_coor, pred_raw_box, true_enc) ==
    IF this.use_giou_loss THEN
        FMul(FMul(obj_mask, box_loss_scale), FSub(SCALE, giou(pred_box_coor, true_box_coor)))
    ELSE IF this.use_ciou_loss THEN
        FMul(FMul(obj_mask, box_loss_scale), FSub(SCALE, ciou(pred_box_coor, true_box_coor)))
    ELSE
        FAdd(xy_loss(obj_mask, box_loss_scale, pred_raw_box, true_enc),
             wh_loss(obj_mask, box_loss_scale, pred_raw_box, true_enc))

\* y_true[b][i][j][a] = [x, y, w, h, obj, cls]: the target t of a cell and
\* anchor, and what loss_layer derives from it.
TrueBoxCoor(t) ==
    <<FSub(t.x, FDiv(t.w, 2 * SCALE)), FSub(t.y, FDiv(t.h, 2 * SCALE)),
      FAdd(t.x, FDiv(t.w, 2 * SCALE)), FAdd(t.y, FDiv(t.h, 2 * SCALE))>>

TrueClass(this, t) ==
    Tup([c \in DOMAIN t.cls |->
        smooth_labels(t.cls[c], this.label_smoothing_factor, this.num_class)])

BoxLossScale(t) == FSub(2 * SCALE, FMul(t.w, t.h))

\* The tensors true_box_coor, obj_mask and pred_box_coor.
TrueBoxes(y_true) == Map4(y_true, LAMBDA b, i, j, a : TrueBoxCoor(y_true[b][i][j][a]))

ObjMask(y_true) == Map4(y_true, LAMBDA b, i, j, a : y_true[b][i][j][a].obj)

PredBoxes(dec) == Map4(dec, LAMBDA b, i, j, a : dec[b][i][j][a].bbox)

\* tf.reduce_max(..., axis=-1) of an N x M table of IoUs.
MaxOverTruth(ious) == Tup([k \in DOMAIN ious |-> ReduceMax(ious[k])])

\* tf.map_fn over the images: each image's predicted boxes against the
\* ground truth IgnoreTruth gives it.
BestIouFlat(pred_box_coor, true_box_coor, obj_mask) ==
    Tup([b \in DOMAIN pred_box_coor |->
        MaxOverTruth(broadcast_iou(Flatten(pred_box_coor[b]),
                                   IgnoreTruth(true_box_coor, obj_mask, b)))])

\* The flat list of every image back in the shape of y_true.
Unflatten(flat, y_true) ==
    Map4(y_true, LAMBDA b, i, j, a :
        flat[b][((i - 1) * Len(y_true[1]) + (j - 1)) * Len(y_true[1][1][1]) + a])

\* The ignore mask with the threshold itself counted as below it.
MasksOfBest_inclusive(this, best_iou) ==
    [best_iou |-> best_iou,
     ignore_mask |-> Map4(best_iou, LAMBDA b, i, j, a :
        IF FLe(best_iou[b][i][j][a], this.yolo_iou_threshold) THEN SCALE ELSE 0)]

\* best_iou and ignore_mask = (best_iou < yolo_iou_threshold).
MasksOfBest(this, best_iou) ==
    [best_iou |-> best_iou,
     ignore_mask |-> Map4(best_iou, LAMBDA b, i, j, a :
        IF FLt(best_iou[b][i][j][a], this.yolo_iou_threshold) THEN SCALE ELSE 0)]

Masks(this, dec, y_true) ==
    MasksOfBest(this, Unflatten(BestIouFlat(PredBoxes(dec), TrueBoxes(y_true),
                                            ObjMask(y_true)), y_true))

\* The three loss terms of one cell and anchor: d is its decoded
\* prediction, t its target, true_enc the legacy encoding of the target.
\* true_wh and wh_loss exist in the legacy branch only.
CellLossOfEncoded(this, d, t, ignore_mask, true_enc) ==
    [obj_mask |-> t.obj,
     confidence_loss |-> ConfidenceLoss(this, t.obj, ignore_mask, t.obj, d.objectness),
     class_loss |-> ClassLoss(this, t.obj, TrueClass(this, t), d.class_probs),
     box_loss |-> BoxLoss(this, t.obj, BoxLossScale(t), d.bbox, TrueBoxCoor(t), d.raw_box,
                          true_enc),
     true_wh |-> IF this.use_giou_loss \/ this.use_ciou_loss THEN <<>>
                 ELSE <<true_enc[3], true_enc[4]>>,
     wh_loss |-> IF this.use_giou_loss \/ this.use_ciou_loss THEN 0
                 ELSE wh_loss(t.obj, BoxLossScale(t), d.raw_box, true_enc)]

CellLoss(this, d, t, ignore_mask, grid, grid_size, anchor) ==
    CellLossOfEncoded(this, d, t, ignore_mask,
                      InvertBoxEquations(<<t.x, t.y>>, <<t.w, t.h>>, grid, grid_size, anchor))

CellLosses(this, dec, y_true, anchors, ignore_mask) ==
    Map4(y_true, LAMBDA b, i, j, a :
        CellLoss(this, dec[b][i][j][a], y_true[b][i][j][a], ignore_mask[b][i][j][a],
                 GridOffsetLoss(i, j), Len(y_true[1]), anchors[a]))

\* box_loss + confidence_loss + class_loss of every image.
ImageLoss(box_sum, confidence_sum, class_sum) ==
    Tup([b \in DOMAIN box_sum |->
        FAdd(FAdd(box_sum[b], confidence_sum[b]), class_sum[b])])

\* The masks, the per-cell loss terms, and the per-image loss: each term
\* summed over the grid and the anchors.
LossOfCells(masks, cells) ==
    [obj_mask |-> Map4(cells, LAMBDA b, i, j, a : cells[b][i][j][a].obj_mask),
     best_iou |-> masks.best_iou,
     ignore_mask |-> masks.ignore_mask,
     confidence_loss |-> Map4(cells, LAMBDA b, i, j, a : cells[b][i][j][a].confidence_loss),
     class_loss |-> Map4(cells, LAMBDA b, i, j, a : cells[b][i][j][a].class_loss),
     box_loss |-> Map4(cells, LAMBDA b, i, j, a : cells[b][i][j][a].box_loss),
     true_wh |-> Map4(cells, LAMBDA b, i, j, a : cells[b][i][j][a].true_wh),
     wh_loss |-> Map4(cells, LAMBDA b, i, j, a : cells[b][i][j][a].wh_loss),
     loss |-> ImageLoss(
        ReduceSum123(Map4(cells, LAMBDA b, i, j, a : cells[b][i][j][a].box_loss)),
        ReduceSum123(Map4(cells, LAMBDA b, i, j, a : cells[b][i][j][a].confidence_loss)),
        ReduceSum123(Map4(cells, LAMBDA b, i, j, a : cells[b][i][j][a].class_loss)))]

LossOfMasks(this, dec, y_true, anchors, masks) ==
    LossOfCells(masks, CellLosses(this, dec, y_true, anchors, masks.ignore_mask))

LossOfDecoded(this, dec, y_true, anchors) ==
    LossOfMasks(this, dec, y_true, anchors, Masks(this, dec, y_true))

\* loss_layer(y_pred, y_true, anchors): the result holds the masks, the
\* per-cell loss terms and the per-image loss the method returns.
loss_layer_terms(this, y_pred, y_true, anchors) ==
    LossOfDecoded(this, decode_loss(y_pred, anchors), y_true, anchors)

loss_layer(this, y_pred, y_true, anchors) ==
    loss_layer_terms(this, y_pred, y_true, anchors).loss

\* tf.reduce_sum(loss_sbbox + loss_mbbox + loss_lbbox); beside the total,
\* what loss_layer computed at each scale.
YoloLossOf(sbbox, mbbox, lbbox) ==
    [loss |-> ReduceSum(Tup([b \in DOMAIN sbbox.loss |->
                  FAdd(FAdd(sbbox.loss[b], mbbox.loss[b]), lbbox.loss[b])])),
     scales |-> <<sbbox, mbbox, lbbox>>]

\* y_pred, y_true: the tensors of the 3 scales.
yolo_loss_terms(this, y_pred, y_true) ==
    YoloLossOf(loss_layer_terms(this, y_pred[1], y_true[1], ScaleAnchors(1)),
               loss_layer_terms(this, y_pred[2], y_true[2], ScaleAnchors(2)),
               loss_layer_terms(this, y_pred[3], y_true[3], ScaleAnchors(3)))

yolo_loss(this, y_pred, y_true) == yolo_loss_terms(this, y_pred, y_true).loss

call(this, y_true, y_pred) == yolo_loss(this, y_pred, y_true)

(***************************************************************************)
(* Inputs of the IoU family: corner-form boxes with x1 <= x2 and y1 <= y2  *)
(* on the integer lattice 0..MaxCoord (zero-area boxes included).          *)
(***************************************************************************)
Coords == 0..MaxCoord

CornerBoxes ==
    {<<x1 * SCALE, y1 * SCALE, x2 * SCALE, y2 * SCALE>> :
        <<x1, y1, x2, y2>> \in
            {b \in Coords \X Coords \X Coords \X Coords : b[1] <= b[3] /\ b[2] <= b[4]}}

NoObject == [kind |-> "none"]
NoHist == <<>>

InitIoU ==
    /\ pc = "start"
    /\ self = NoObject
    /\ \E b1 \in CornerBoxes, b2 \in CornerBoxes : args = <<b1, b2>>
    /\ ret = [iou |-> 0]
    /\ hist = NoHist

CallIou ==
    /\ pc = "start"
    /\ pc' = "iou"
    /\ ret' = [iou |-> iou(args[1], args[2])]
    /\ UNCHANGED <<self, args, hist>>

CallBroadcastIou ==
    /\ pc = "start"
    /\ pc' = "broadcast_iou"
    /\ ret' = [iou |-> broadcast_iou(<<args[1]>>, <<args[2]>>)[1][1]]
    /\ UNCHANGED <<self, args, hist>>

CallGiou ==
    /\ pc = "start"
    /\ pc' = "giou"
    /\ ret' = [iou |-> iou(args[1], args[2]), giou |-> giou(args[1], args[2])]
    /\ UNCHANGED <<self, args, hist>>

CallCiou ==
    /\ pc = "start"
    /\ pc' = "ciou"
    /\ ret' = ciou_terms(args[1], args[2])
    /\ UNCHANGED <<self, args, hist>>

NextIoU == CallIou \/ CallBroadcastIou \/ CallGiou \/ CallCiou

SpecIoU == InitIoU /\ [][NextIoU]_vars

(***************************************************************************)
(* The loss object and its inputs.                                         *)
(***************************************************************************)
\* YOLOv4Loss.__init__ stores its arguments; it rejects nothing.
YOLOv4Loss(num_class, yolo_iou_threshold, label_smoothing_factor, use_focal_loss, use_focal_obj_loss, use_giou_loss, use_ciou_loss) ==
    [kind |-> "YOLOv4Loss",
     num_class |-> num_class,
     yolo_iou_threshold |-> yolo_iou_threshold,
     label_smoothing_factor |-> label_smoothing_factor,
     use_focal_loss |-> use_focal_loss,
     use_focal_obj_loss |-> use_focal_obj_loss,
     use_giou_loss |-> use_giou_loss,
     use_ciou_loss |-> use_ciou_loss]

\* An image of shape (G, G, 3): F(i, j, a) in row i, column j, anchor a.
Grid3(G, F(_, _, _)) ==
    Tup([i \in 1..G |-> Tup([j \in 1..G |-> Tup([a \in 1..3 |-> F(i, j, a)])])])

\* Raw outputs of one cell: logits 0; a confident, enlarged box of class 1;
\* a faint, shrunk box.
RawFlat(n) == [x |-> 0, y |-> 0, w |-> 0, h |-> 0, obj |-> 0, cls |-> Tup([c \in 1..n |-> 0])]
RawSure(n) == [x |-> Ln2, y |-> -Ln2, w |-> Ln2, h |-> 0, obj |-> 3 * Ln2,
               cls |-> Tup([c \in 1..n |-> IF c = 1 THEN 2 * Ln2 ELSE -2 * Ln2])]
RawFaint(n) == [x |-> 0, y |-> 0, w |-> -Ln2, h |-> -Ln2, obj |-> -3 * Ln2,
                cls |-> Tup([c \in 1..n |-> -2 * Ln2])]

\* Prediction images: every cell of the image has the same raw outputs.
PredFlat(G, n) == Grid3(G, LAMBDA i, j, a : RawFlat(n))
PredSure(G, n) == Grid3(G, LAMBDA i, j, a : RawSure(n))
PredFaint(G, n) == Grid3(G, LAMBDA i, j, a : RawFaint(n))

PredImages(G, n) == {PredFlat(G, n), PredSure(G, n), PredFaint(G, n)}

TrueEmpty(n) ==
    [x |-> 0, y |-> 0, w |-> 0, h |-> 0, obj |-> 0, cls |-> Tup([c \in 1..n |-> 0])]

\* A target of class c centred in cell (i, j) of a G x G grid.
TrueObject(G, n, i, j, wh, c) ==
    [x |-> Fx(2 * j - 1, 2 * G), y |-> Fx(2 * i - 1, 2 * G), w |-> wh[1], h |-> wh[2],
     obj |-> SCALE, cls |-> Tup([k \in 1..n |-> IF k = c THEN SCALE ELSE 0])]

\* Target sizes: a square box, a flat box, a box of width 0.
SizeSquare == <<Fx(1, 2), Fx(1, 2)>>
SizeFlat == <<Fx(1, 1), Fx(1, 4)>>
SizeNoWidth == <<0, Fx(1, 2)>>

TrueSizes == {SizeSquare, SizeFlat, SizeNoWidth}

\* Target images: no object, or one object of the last class assigned to
\* one cell and anchor.
TrueNone(G, n) == Grid3(G, LAMBDA i, j, a : TrueEmpty(n))

TrueOne(G, n, site, wh) ==
    Grid3(G, LAMBDA i, j, a :
        IF <<i, j, a>> = site THEN TrueObject(G, n, i, j, wh, n) ELSE TrueEmpty(n))

\* A target centred where the flat prediction of its cell is decoded, of the
\* width and half the height of the largest anchor, assigned to anchor 2:
\* at the first scale the flat prediction of anchor 3 overlaps it by
\* exactly 1/2.
SizeHalfAnchor == <<Fx(1, 2), Fx(1, 4)>>

TrueOnFlat(G, n) ==
    Grid3(G, LAMBDA i, j, a :
        IF <<i, j, a>> = <<1, 1, 2>>
        THEN [TrueObject(G, n, i, j, SizeHalfAnchor, n) EXCEPT
                 !.x = FDiv(FAdd(FMul(grid_sensitivity_ratio, Sigmoid(0)), GridOffset(i, j)[1]),
                            G * SCALE),
                 !.y = FDiv(FAdd(FMul(grid_sensitivity_ratio, Sigmoid(0)), GridOffset(i, j)[2]),
                            G * SCALE)]
        ELSE TrueEmpty(n))

TrueImages(G, n) ==
    {TrueNone(G, n), TrueOnFlat(G, n)}
    \cup {TrueOne(G, n, site, wh) : site \in {<<1, 1, 3>>, <<G, G, 1>>}, wh \in TrueSizes}

\* The sequences of B elements of S.
RECURSIVE SeqsOfLen(_, _)
SeqsOfLen(S, B) ==
    IF B = 0 THEN {<<>>}
    ELSE {Append(q, x) : q \in SeqsOfLen(S, B - 1), x \in S}

\* Batches of 1..MaxBatch elements of S.
Batches(S) == UNION {SeqsOfLen(S, B) : B \in 1..MaxBatch}

Thresholds == {Fx(1, 2)}
Smoothings == {0, Fx(1, 8)}

InitLoss ==
    /\ pc = "new"
    /\ self = NoObject
    /\ args = <<>>
    /\ ret = <<>>
    /\ hist = NoHist

\* loss = YOLOv4Loss(...)
Construct ==
    /\ pc = "new"
    /\ \E thr \in Thresholds, eps \in Smoothings, fl, fo, gi, ci \in BOOLEAN :
          self' = YOLOv4Loss(NumClass, thr, eps, fl, fo, gi, ci)
    /\ pc' = "ready"
    /\ UNCHANGED <<args, ret, hist>>

\* loss.loss_layer(y_pred, y_true, anchors) on one image at one scale.
LossLayer ==
    /\ pc = "ready"
    /\ \E k \in 1..3, p \in PredImages(GridSize, NumClass),
          t \in TrueImages(GridSize, NumClass) :
          /\ args' = [y_pred |-> <<p>>, y_true |-> <<t>>, anchors |-> ScaleAnchors(k)]
          /\ ret' = loss_layer_terms(self, <<p>>, <<t>>, ScaleAnchors(k))
    /\ pc' = "loss_layer"
    /\ UNCHANGED <<self, hist>>

\* What the three scales see of one image: <<predictions, targets>> per
\* scale.  A square object at the first scale; an object of width 0 at the
\* last scale.
SceneFirstScale(G, n) ==
    Tup([s \in 1..3 |-> <<PredSure(G, n),
                          IF s = 1 THEN TrueOne(G, n, <<1, 1, 3>>, SizeSquare)
                          ELSE TrueNone(G, n)>>])
SceneLastScale(G, n) ==
    Tup([s \in 1..3 |-> <<PredFaint(G, n),
                          IF s = 3 THEN TrueOne(G, n, <<G, G, 1>>, SizeNoWidth)
                          ELSE TrueNone(G, n)>>])

Scenes(G, n) == {SceneFirstScale(G, n), SceneLastScale(G, n)}

\* loss(y_true, y_pred) on a batch of scenes.
Call ==
    /\ pc = "ready"
    /\ \E scenes \in Batches(Scenes(GridSize, NumClass)) :
          LET y_pred == Tup([s \in 1..3 |->
                            Tup([b \in DOMAIN scenes |-> scenes[b][s][1]])])
              y_true == Tup([s \in 1..3 |->
                            Tup([b \in DOMAIN scenes |-> scenes[b][s][2]])])
          IN  /\ args' = [y_pred |-> y_pred, y_true |-> y_true]
              /\ ret' = yolo_loss_terms(self, y_pred, y_true)
    /\ pc' = "call"
    /\ UNCHANGED <<self, hist>>

NextLoss == Construct \/ LossLayer \/ Call

SpecLoss == InitLoss /\ [][NextLoss]_vars

(***************************************************************************)
(* Two calls of loss_layer on one object built with the default flags.     *)
(***************************************************************************)
DefaultLoss == YOLOv4Loss(NumClass, Fx(1, 2), 0, FALSE, FALSE, FALSE, FALSE)

\* An image is <<predictions, targets>>.
BatchImages(G, n) ==
    {<<PredFlat(G, n), TrueOne(G, n, <<1, 1, 1>>, SizeSquare)>>,
     <<PredFlat(G, n), TrueNone(G, n)>>,
     <<PredSure(G, n), TrueOne(G, n, <<G, G, 3>>, SizeFlat)>>}

BatchThresholds == {Fx(1, 2), Fx(1, 4)}

\* The scales whose anchors the batch is decoded with: the first and the last.
BatchScales == {1, 3}

InitBatch ==
    /\ pc = "ready"
    /\ \E thr \in BatchThresholds :
          self = YOLOv4Loss(NumClass, thr, 0, FALSE, FALSE, FALSE, FALSE)
    /\ args = <<>>
    /\ ret = <<>>
    /\ hist = NoHist

\* loss.loss_layer(y_pred, y_true, anchors) on a batch.  The second call
\* is on a batch that keeps image i of the first call, whose ignore mask is
\* remembered, and the anchors; the other images and the length of the
\* batch change freely.
LossLayerBatch ==
    /\ pc \in {"ready", "loss_layer"}
    /\ \E images \in Batches(BatchImages(GridSize, NumClass)), k \in BatchScales :
          /\ IF pc = "ready"
             THEN /\ hist' = NoHist
                  /\ pc' = "loss_layer"
             ELSE /\ ScaleAnchors(k) = args.anchors
                  /\ \E i \in DOMAIN args.y_pred :
                        /\ i \in DOMAIN images
                        /\ images[i][1] = args.y_pred[i]
                        /\ images[i][2] = args.y_true[i]
                        /\ hist' = [i |-> i, y_pred |-> args.y_pred[i],
                                    y_true |-> args.y_true[i],
                                    ignore_mask |-> ret.ignore_mask[i]]
                  /\ pc' = "loss_layer_again"
          /\ LET y_pred == Tup([b \in DOMAIN images |-> images[b][1]])
                 y_true == Tup([b \in DOMAIN images |-> images[b][2]])
             IN  /\ args' = [y_pred |-> y_pred, y_true |-> y_true,
                             anchors |-> ScaleAnchors(k)]
                 /\ ret' = loss_layer_terms(self, y_pred, y_true, ScaleAnchors(k))
    /\ UNCHANGED self

NextBatch == LossLayerBatch

SpecBatch == InitBatch /\ [][NextBatch]_vars

(***************************************************************************)
(* The legacy encoding of a target followed by decode_loss's box           *)
(* equations, for one cell and anchor of a grid.                           *)
(***************************************************************************)
MaxGrid == 3

\* Centres and sizes of target boxes, as fractions of the image.
TargetCentres == {Fx(1, 4), Fx(5, 8)}
TargetSizes == {Fx(1, 8), Fx(3, 8), SCALE}

InitDecode ==
    /\ pc = "target"
    /\ self = DefaultLoss
    /\ \E grid_size \in 1..MaxGrid, n \in DOMAIN get_anchors,
          x, y \in TargetCentres, w, h \in TargetSizes :
          \E i, j \in 1..grid_size :
             args = [grid_size |-> grid_size, i |-> i, j |-> j,
                     anchor |-> get_anchors[n],
                     target |-> [x |-> x, y |-> y, w |-> w, h |-> h]]
    /\ ret = <<>>
    /\ hist = NoHist

\* The legacy branch of loss_layer on the target of cell (i, j).
Encode ==
    /\ pc = "target"
    /\ ret' = InvertBoxEquations(<<args.target.x, args.target.y>>,
                                 <<args.target.w, args.target.h>>,
                                 GridOffsetLoss(args.i, args.j),
                                 args.grid_size, args.anchor)
    /\ pc' = "encoded"
    /\ UNCHANGED <<self, args, hist>>

\* decode_loss's box equations on the encoding, in the same cell.
Decode ==
    /\ pc = "encoded"
    /\ hist' = ret
    /\ ret' = BoxEquations(ret, GridOffset(args.i, args.j),
                           args.grid_size, args.anchor)
    /\ pc' = "decoded"
    /\ UNCHANGED <<self, args>>

NextDecode == Encode \/ Decode

SpecDecode == InitDecode /\ [][NextDecode]_vars

(***************************************************************************)
(* utils.decode, utils.flatten_output and utils.non_max_suppression        *)
(***************************************************************************)
MaxDetections == 3

\* decode(pred, anchors): decode_loss without the raw box.
decode(pred, anchors) ==
    LET grid_size == Len(pred[1])
        Cell(b, i, j, a) ==
            LET p == pred[b][i][j][a]
                box_xy == <<FMul(grid_sensitivity_ratio, Sigmoid(p.x)),
                            FMul(grid_sensitivity_ratio, Sigmoid(p.y))>>
                grid == <<(j - 1) * SCALE, (i - 1) * SCALE>>
            IN  [bbox |-> BoxEquations(<<box_xy[1], box_xy[2], p.w, p.h>>, grid,
                                       grid_size, anchors[a]),
                 objectness |-> Sigmoid(p.obj),
                 class_probs |-> Tup([c \in DOMAIN p.cls |-> Sigmoid(p.cls[c])])]
    IN  Map4(pred, Cell)

\* flatten_output(outputs): [batch, grid, grid, anchors, *] to
\* [batch, grid * grid * anchors, *].
flatten_output(outputs) == Tup([b \in DOMAIN outputs |-> Flatten(outputs[b])])

\* The overlap tf.image.combined_non_max_suppression measures between two
\* boxes: corners in either order, 0 when a box has no area.
NmsIOU(box_i, box_j) ==
    LET lo(u, v) == FMin(u, v)
        hi(u, v) == FMax(u, v)
        area_i == FMul(FSub(hi(box_i[1], box_i[3]), lo(box_i[1], box_i[3])),
                       FSub(hi(box_i[2], box_i[4]), lo(box_i[2], box_i[4])))
        area_j == FMul(FSub(hi(box_j[1], box_j[3]), lo(box_j[1], box_j[3])),
                       FSub(hi(box_j[2], box_j[4]), lo(box_j[2], box_j[4])))
        int_1 == FMax(FSub(FMin(hi(box_i[1], box_i[3]), hi(box_j[1], box_j[3])),
                           FMax(lo(box_i[1], box_i[3]), lo(box_j[1], box_j[3]))), 0)
        int_2 == FMax(FSub(FMin(hi(box_i[2], box_i[4]), hi(box_j[2], box_j[4])),
                           FMax(lo(box_i[2], box_i[4]), lo(box_j[2], box_j[4]))), 0)
        intersection_area == FMul(int_1, int_2)
    IN  IF FLe(area_i, 0) \/ FLe(area_j, 0) THEN 0
        ELSE FDiv(intersection_area, FSub(FAdd(area_i, area_j), intersection_area))

\* The candidates of S, records with a score, a class and a box index, from
\* the highest score down; equal scores in the order of class and index.
RECURSIVE ByScore(_)
ByScore(S) ==
    IF S = {} THEN <<>>
    ELSE LET Before(u, v) ==
                 \/ u.score > v.score
                 \/ u.score = v.score /\ u.class < v.class
                 \/ u.score = v.score /\ u.class = v.class /\ u.index <= v.index
             top == CHOOSE u \in S : \A v \in S : Before(u, v)
         IN  <<top>> \o ByScore(S \ {top})

\* The candidates from the k-th on, best first: a box is kept unless it
\* overlaps a kept box by more than iou_threshold; at most size_per_class
\* are kept.
RECURSIVE Select(_, _, _, _, _, _)
Select(k, selected, candidates, boxes, size_per_class, iou_threshold) ==
    IF k > Len(candidates) \/ Len(selected) >= size_per_class THEN selected
    ELSE IF \E m \in DOMAIN selected :
                FLt(iou_threshold,
                    NmsIOU(boxes[candidates[k].index], boxes[selected[m].index]))
         THEN Select(k + 1, selected, candidates, boxes, size_per_class, iou_threshold)
         ELSE Select(k + 1, Append(selected, candidates[k]), candidates, boxes,
                     size_per_class, iou_threshold)

\* Greedy suppression within class c, over the boxes scoring above
\* score_threshold.
DoNMSPerClass(boxes, scores, c, size_per_class, score_threshold, iou_threshold) ==
    LET candidates == ByScore({[index |-> k, score |-> scores[k][c], class |-> c - 1] :
                                  k \in {n \in DOMAIN boxes : FLt(score_threshold, scores[n][c])}})
    IN  Select(1, <<>>, candidates, boxes, size_per_class, iou_threshold)

\* clip_boxes, set by default: the coordinates of a returned box are
\* clipped to [0, 1].
ClipBox(box) == Tup([n \in DOMAIN box |-> FMax(FMin(box[n], SCALE), 0)])

\* The kept boxes, best first, as the padded outputs: at most
\* max_total_size of them, their boxes clipped.
PadResults(boxes, best, max_total_size) ==
    LET valid == IF Len(best) < max_total_size THEN Len(best) ELSE max_total_size
    IN  [nmsed_boxes |-> Tup([m \in 1..max_total_size |->
                            IF m <= valid THEN ClipBox(boxes[best[m].index])
                            ELSE <<0, 0, 0, 0>>]),
         nmsed_scores |-> Tup([m \in 1..max_total_size |->
                            IF m <= valid THEN best[m].score ELSE 0]),
         nmsed_classes |-> Tup([m \in 1..max_total_size |->
                            IF m <= valid THEN best[m].class ELSE 0]),
         valid_detections |-> valid]

Range(s) == {s[m] : m \in DOMAIN s}

\* tf.image.combined_non_max_suppression on one image: the kept boxes of
\* all classes, best first, at most max_total_size, padded with zeros.
combined_non_max_suppression(boxes, scores, max_output_size_per_class, max_total_size, iou_threshold, score_threshold) ==
    PadResults(boxes,
               ByScore(UNION {Range(DoNMSPerClass(boxes, scores, c,
                                                  max_output_size_per_class,
                                                  score_threshold, iou_threshold)) :
                              c \in DOMAIN scores[1]}),
               max_total_size)

\* scores = confidence * class_probs
Scores(all) ==
    Tup([k \in DOMAIN all |->
        Tup([c \in DOMAIN all[k].class_probs |->
            FMul(all[k].objectness, all[k].class_probs[c])])])

\* One image: all is the concatenation of its three flattened scales.
NmsOfImage(all, iou_threshold, score_threshold, max_bbox_size) ==
    combined_non_max_suppression(Tup([k \in DOMAIN all |-> all[k].bbox]), Scores(all),
                                 max_bbox_size, max_bbox_size,
                                 iou_threshold, score_threshold)

\* The four outputs, each with the image as its first axis.
Outputs(out) ==
    [bboxes |-> Tup([b \in DOMAIN out |-> out[b].nmsed_boxes]),
     scores |-> Tup([b \in DOMAIN out |-> out[b].nmsed_scores]),
     classes |-> Tup([b \in DOMAIN out |-> out[b].nmsed_classes]),
     valid_detections |-> Tup([b \in DOMAIN out |-> out[b].valid_detections])]

NmsOfOutputs(output_small, output_medium, output_large, iou_threshold, score_threshold, max_bbox_size) ==
    Outputs(Tup([b \in DOMAIN output_small |->
        NmsOfImage(output_small[b] \o output_medium[b] \o output_large[b],
                   iou_threshold, score_threshold, max_bbox_size)]))

\* non_max_suppression(inputs, iou_threshold, score_threshold, max_bbox_size)
non_max_suppression(inputs, iou_threshold, score_threshold, max_bbox_size) ==
    NmsOfOutputs(flatten_output(decode(inputs[1], ScaleAnchors(1))),
                 flatten_output(decode(inputs[2], ScaleAnchors(2))),
                 flatten_output(decode(inputs[3], ScaleAnchors(3))),
                 iou_threshold, score_threshold, max_bbox_size)

\* Raw outputs of a confident box of class 1, four times the anchor.
RawWide(n) == [x |-> 0, y |-> 0, w |-> 2 * Ln2, h |-> 2 * Ln2, obj |-> 3 * Ln2,
               cls |-> Tup([c \in 1..n |-> IF c = 1 THEN 2 * Ln2 ELSE -2 * Ln2])]

PredWide(G, n) == Grid3(G, LAMBDA i, j, a : RawWide(n))

\* The three scales of one image.
NmsScenes(G, n) ==
    {<<PredSure(G, n), PredFaint(G, n), PredFlat(G, n)>>,
     <<PredFlat(G, n), PredSure(G, n), PredSure(G, n)>>,
     <<PredWide(G, n), PredFaint(G, n), PredFaint(G, n)>>,
     <<PredFaint(G, n), PredFaint(G, n), PredFaint(G, n)>>}

IouThresholds == {Fx(1, 4), Fx(1, 2)}
ScoreThresholds == {Fx(1, 8), Fx(1, 2)}

InitNMS ==
    /\ pc = "ready"
    /\ self = NoObject
    /\ args = <<>>
    /\ ret = <<>>
    /\ hist = NoHist

NonMaxSuppression ==
    /\ pc = "ready"
    /\ \E scenes \in Batches(NmsScenes(GridSize, NumClass)),
          iou_threshold \in IouThresholds,
          score_threshold \in ScoreThresholds,
          max_bbox_size \in 1..MaxDetections :
          LET inputs == Tup([s \in 1..3 |->
                            Tup([b \in DOMAIN scenes |-> scenes[b][s]])])
          IN  /\ args' = [inputs |-> inputs, iou_threshold |-> iou_threshold,
                          score_threshold |-> score_threshold,
                          max_bbox_size |-> max_bbox_size]
              /\ ret' = non_max_suppression(inputs, iou_threshold, score_threshold,
                                            max_bbox_size)
    /\ pc' = "non_max_suppression"
    /\ UNCHANGED <<self, hist>>

NextNMS == NonMaxSuppression

SpecNMS == InitNMS /\ [][NextNMS]_vars

(***************************************************************************)
(* Properties of the IoU family, under SpecIoU.                            *)
(***************************************************************************)
(* focal_loss on its own: one call on the class axis of one cell.          *)
(***************************************************************************)
Gammas == {0, 1, DefaultGamma}
Alphas == {DefaultAlpha, Fx(1, 2)}
Labels == {0, SCALE, smooth_labels(SCALE, Fx(1, 8), NumClass)}
Logits == {-2 * Ln2, 0, Ln2}

InitFocal ==
    /\ pc = "focal_input"
    /\ self = NoObject
    /\ \E n \in 1..NumClass :
          \E y_true \in SeqsOfLen(Labels, n), logits \in SeqsOfLen(Logits, n),
             gamma \in Gammas, alpha \in Alphas :
             args = [y_true |-> y_true,
                     y_pred |-> Tup([c \in 1..n |-> Sigmoid(logits[c])]),
                     gamma |-> gamma, alpha |-> alpha]
    /\ ret = <<>>
    /\ hist = NoHist

FocalLoss ==
    /\ pc = "focal_input"
    /\ ret' = focal_loss(args.y_true, args.y_pred, args.gamma, args.alpha)
    /\ pc' = "focal_loss"
    /\ UNCHANGED <<self, args, hist>>

NextFocal == FocalLoss

SpecFocal == InitFocal /\ [][NextFocal]_vars

(***************************************************************************)
ValidBox(b) == b[1] <= b[3] /\ b[2] <= b[4]
PositiveArea(b) == b[1] < b[3] /\ b[2] < b[4]
ZeroArea(b) == b[1] = b[3] \/ b[2] = b[4]
Disjoint(a, b) ==
    \/ FMin(a[3], b[3]) <= FMax(a[1], b[1])
    \/ FMin(a[4], b[4]) <= FMax(a[2], b[2])

\* C5: for corner-form boxes with x1 <= x2 and y1 <= y2, iou and
\* broadcast_iou return exactly 1 for a box of positive area against itself
\* and exactly 0 for two disjoint boxes.
Thm_C5_IouSameAndDisjoint ==
    (pc \in {"iou", "broadcast_iou"} /\ ValidBox(args[1]) /\ ValidBox(args[2])) =>
        /\ (args[1] = args[2] /\ PositiveArea(args[1])) => ret.iou = SCALE
        /\ Disjoint(args[1], args[2]) => ret.iou = 0

Wit_C5_SameBoxBroadcast ==
    /\ pc = "broadcast_iou"
    /\ args[1] = args[2]
    /\ PositiveArea(args[1])
    /\ ret.iou = SCALE

\* C6: iou, broadcast_iou, giou and ciou return finite values for every pair
\* of boxes, every division by a zero denominator yielding 0; the IoU of two
\* zero-area boxes is 0.
Thm_C6_SafeDivide ==
    /\ pc \in {"iou", "broadcast_iou"} =>
          /\ IsFinite(ret.iou)
          /\ (ZeroArea(args[1]) /\ ZeroArea(args[2])) => ret.iou = 0
    /\ pc = "giou" => IsFinite(ret.iou) /\ IsFinite(ret.giou)
    /\ pc = "ciou" =>
          /\ IsFinite(ret.iou) /\ IsFinite(ret.diou) /\ IsFinite(ret.v)
          /\ IsFinite(ret.alpha) /\ IsFinite(ret.ciou)

\* Two copies of one point: union area, enclosing diagonal and both heights
\* are 0.
Wit_C6_PointBoxesCiou ==
    /\ pc = "ciou"
    /\ args[1] = args[2]
    /\ args[1][1] = args[1][3] /\ args[1][2] = args[1][4]
    /\ ret.ciou = 0

\* C7: giou(box_a, box_b) <= iou(box_a, box_b) for every pair of corner-form
\* boxes with x1 <= x2 and y1 <= y2, zero-area and disjoint boxes included.
Thm_C7_GiouLeIou ==
    (pc = "giou" /\ ValidBox(args[1]) /\ ValidBox(args[2])) =>
        FLe(ret.giou, ret.iou)

Wit_C7_DisjointPenalised ==
    /\ pc = "giou"
    /\ Disjoint(args[1], args[2])
    /\ PositiveArea(args[1]) /\ PositiveArea(args[2])
    /\ ret.giou < 0
    /\ ret.iou = 0

\* C8: inside ciou, ciou <= diou <= iou: the centre-distance term and the
\* aspect-ratio term alpha * v are both non-negative.
Thm_C8_CiouLeDiouLeIou ==
    (pc = "ciou" /\ ValidBox(args[1]) /\ ValidBox(args[2])) =>
        /\ FLe(ret.ciou, ret.diou)
        /\ FLe(ret.diou, ret.iou)
        /\ FLe(0, ret.v)
        /\ FLe(0, ret.alpha)

Wit_C8_BothTermsPositive ==
    /\ pc = "ciou"
    /\ ret.ciou < ret.diou
    /\ ret.diou < ret.iou
    /\ ret.iou > 0

(***************************************************************************)
(* Properties of the loss, under SpecLoss.                                 *)
(***************************************************************************)
Constructed == pc # "new"

\* The cells <<b, i, j, a>> of a tensor.
Cells(t) ==
    {<<b, i, j, a>> \in (DOMAIN t) \X (1..GridSize) \X (1..GridSize) \X (1..3) : TRUE}

At(t, c) == t[c[1]][c[2]][c[3]][c[4]]

\* C3: a YOLOv4Loss with use_giou_loss and use_ciou_loss both set is
\* rejected at construction: no loss object has both flags set.
Cex_C3_BothBoxFlagsRejected ==
    Constructed => ~(self.use_giou_loss /\ self.use_ciou_loss)

\* C4: whatever use_focal_loss is, every cell and anchor whose target
\* objectness is 0 contributes exactly 0 to the class loss.
Cex_C4_ClassLossOnlyAtObjects ==
    pc = "loss_layer" =>
        \A c \in Cells(ret.obj_mask) :
            At(ret.obj_mask, c) = 0 => At(ret.class_loss, c) = 0

\* The sum over the cells of every image of every scale of the three loss
\* terms.
RECURSIVE SumOver(_, _)
SumOver(S, t) ==
    IF S = {} THEN 0
    ELSE LET c == CHOOSE x \in S : TRUE
         IN  At(t.box_loss, c) + At(t.confidence_loss, c) + At(t.class_loss, c)
                + SumOver(S \ {c}, t)

SumOfTerms ==
    SumOver(Cells(ret.scales[1].box_loss), ret.scales[1])
    + SumOver(Cells(ret.scales[2].box_loss), ret.scales[2])
    + SumOver(Cells(ret.scales[3].box_loss), ret.scales[3])

\* C10: for every combination of the loss-mode flags, and targets with
\* objectness in {0, 1}, classes in [0, 1] and width and height in [0, 1],
\* call returns one scalar >= 0: the sum over the 3 scales and all images of
\* box_loss + confidence_loss + class_loss.
Thm_C10_LossNonNegativeSum ==
    pc = "call" =>
        /\ IsFinite(ret.loss)
        /\ ret.loss >= 0
        /\ ret.loss = SumOfTerms

Wit_C10_FullBatchGiouFocal ==
    /\ pc = "call"
    /\ self.use_giou_loss /\ self.use_focal_loss /\ ~self.use_focal_obj_loss
    /\ Len(args.y_pred[1]) = MaxBatch
    /\ \E b \in DOMAIN args.y_true[1] : args.y_true[1][b][1][1][3].obj = SCALE
    /\ ret.loss > 0

(***************************************************************************)
(* Properties of the ignore mask, under SpecBatch.                         *)
(***************************************************************************)
\* C2: the ignore mask of image i depends only on image i's predicted boxes
\* and image i's target boxes with objectness 1: two batches that agree on
\* image i give image i the same ignore mask.
Thm_C2_IgnoreMaskPerImage ==
    pc = "loss_layer_again" =>
        \A i \in DOMAIN args.y_pred :
            (/\ i = hist.i
             /\ args.y_pred[i] = hist.y_pred
             /\ args.y_true[i] = hist.y_true)
                => ret.ignore_mask[i] = hist.ignore_mask

\* Image 1 is kept, the other image of the batch changes, and image 1's
\* mask has an ignored and a kept anchor.
Wit_C2_OtherImageChanged ==
    /\ pc = "loss_layer_again"
    /\ hist.i = 1
    /\ args.y_pred[1] = hist.y_pred
    /\ args.y_true[1] = hist.y_true
    /\ Len(args.y_pred) = 2
    /\ \E b \in DOMAIN args.y_true :
          b # 1 /\ \E a \in 1..3 : args.y_true[b][1][1][a].obj = SCALE
    /\ \E a1, a2 \in 1..3 :
          /\ hist.ignore_mask[1][1][a1] = 0
          /\ hist.ignore_mask[1][1][a2] = SCALE

(***************************************************************************)
(* Properties of the box equations, under SpecDecode.                      *)
(***************************************************************************)
\* The rounding of one round trip, in units of 1 / SCALE.
Tolerance == 2

Near(u, v) == IsFinite(u) /\ IsFinite(v) /\ u - v <= Tolerance /\ v - u <= Tolerance

\* C9: the legacy encoding of a target box with positive width and height,
\* put through decode_loss's box equations in the same cell with the same
\* anchor, gives back the target's corner-form box, up to rounding; the two
\* steps use the same (col, row) offset for the cell.
Thm_C9_DecodeInvertsEncode ==
    /\ pc = "decoded" =>
          \A n \in 1..4 : Near(ret[n], TrueBoxCoor(args.target)[n])
    /\ pc # "target" =>
          GridOffsetLoss(args.i, args.j) = GridOffset(args.i, args.j)

\* A cell off the diagonal, a target that is not a power of two times the
\* anchor, and an encoding that is not zero.
Wit_C9_OffDiagonalCell ==
    /\ pc = "decoded"
    /\ args.i # args.j
    /\ args.target.w = Fx(3, 8)
    /\ args.target.h = Fx(1, 8)
    /\ hist[3] # 0 /\ hist[4] # 0
    /\ hist[1] # hist[2]

(***************************************************************************)
(* Properties of non_max_suppression, under SpecNMS.                       *)
(***************************************************************************)
\* C1: for every image, valid_detections <= max_bbox_size, no two of the
\* first valid_detections returned boxes with the same class id have IoU
\* above iou_threshold, and every one of the first valid_detections returned
\* scores is >= score_threshold.
Cex_C1_NmsOutputInvariant ==
    pc = "non_max_suppression" =>
        \A b \in DOMAIN ret.valid_detections :
            /\ ret.valid_detections[b] <= args.max_bbox_size
            /\ \A m, n \in 1..ret.valid_detections[b] :
                  (m # n /\ ret.classes[b][m] = ret.classes[b][n])
                     => FLe(iou(ret.bboxes[b][m], ret.bboxes[b][n]), args.iou_threshold)
            /\ \A m \in 1..ret.valid_detections[b] :
                  FLe(args.score_threshold, ret.scores[b][m])

(***************************************************************************)
(* Properties of the confidence loss, under SpecLoss.                      *)
(***************************************************************************)
\* The binary cross-entropy of the objectness of cell c of the call.
CellBce(c) ==
    binary_crossentropy(<<At(args.y_true, c).obj>>, <<Sigmoid(At(args.y_pred, c).obj)>>)

Cex_C12_FocalPerClassBce ==
    pc = "focal_loss" =>
        ret = ReduceSum(Tup([c \in DOMAIN args.y_true |->
                FMul(FMul(modulating_factor(args.y_true[c], args.y_pred[c], args.gamma),
                          alpha_weight_factor(args.y_true[c], args.alpha)),
                     BceTerm(args.y_true[c], args.y_pred[c]))]))

(***************************************************************************)
(* Properties of the legacy box loss, under SpecLoss.                      *)
(***************************************************************************)
\* C13: in the legacy branch (neither use_giou_loss nor use_ciou_loss) a
\* target of width 0 is encoded with tw = 0 and one of height 0 with
\* th = 0, never an infinite value; a cell with obj_mask = 0 and a
\* zero-size target adds exactly 0 to wh_loss; and the box loss of every
\* image is finite.
Thm_C13_ZeroSizeTargetClamped ==
    (pc = "loss_layer" /\ ~self.use_giou_loss /\ ~self.use_ciou_loss) =>
        /\ \A c \in Cells(ret.obj_mask) :
              /\ At(args.y_true, c).w = 0 => At(ret.true_wh, c)[1] = 0
              /\ At(args.y_true, c).h = 0 => At(ret.true_wh, c)[2] = 0
              /\ (At(ret.obj_mask, c) = 0
                  /\ (At(args.y_true, c).w = 0 \/ At(args.y_true, c).h = 0))
                 => (At(ret.wh_loss, c) = 0 /\ At(ret.box_loss, c) = 0)
        /\ \A b \in DOMAIN ret.box_loss : IsFinite(ReduceSum123(ret.box_loss)[b])

\* A legacy call on an image with an object of width 0 whose wh_loss is
\* positive, and a no-object cell of width and height 0 that adds 0.
Wit_C13_ZeroWidthObject ==
    /\ pc = "loss_layer"
    /\ ~self.use_giou_loss /\ ~self.use_ciou_loss
    /\ \E c, d \in Cells(ret.obj_mask) :
          /\ At(ret.obj_mask, c) = SCALE
          /\ At(args.y_true, c).w = 0
          /\ At(args.y_true, c).h > 0
          /\ At(ret.true_wh, c)[1] = 0
          /\ At(ret.wh_loss, c) > 0
          /\ At(ret.obj_mask, d) = 0
          /\ At(args.y_true, d).w = 0
          /\ At(args.y_true, d).h = 0
          /\ At(ret.true_wh, d) = <<0, 0>>
          /\ At(ret.wh_loss, d) = 0
    /\ IsFinite(ReduceSum123(ret.box_loss)[1])
    /\ ReduceSum123(ret.box_loss)[1] > 0

====
